---- MODULE Spec2Model ----
(***************************************************************************)
(* A model of the vl1 Locator (network-hypervisor/src/vl1/locator.rs) and  *)
(* of the vl1 Path (zerotier-network-hypervisor/src/vl1/path.rs).          *)
(*                                                                         *)
(* Machine widths are scaled down so that TLC can enumerate them: a byte   *)
(* has two bits, a u64/i64 is one byte wide, a usize has four bits.  All   *)
(* conversions keep their shape (two's complement casts, big-endian        *)
(* fixed-width integers, terminator-flagged variable-length integers).     *)
(***************************************************************************)
EXTENDS Integers, Sequences, FiniteSets, TLC

(***************************************************************************)
(* Scaled machine types                                                    *)
(***************************************************************************)
\* number of values of a byte (u8)
ByteModulus == 4
Byte == 0..(ByteModulus - 1)

\* number of values of the u64 / i64 a timestamp is stored in (one byte wide)
U64Modulus == 4
I64_MIN == -(U64Modulus \div 2)
I64_MAX == (U64Modulus \div 2) - 1
I64 == I64_MIN..I64_MAX

\* `ts as u64` and `x as i64`: two's complement reinterpretation
as_u64(i) == i % U64Modulus
as_i64(u) == IF u >= U64Modulus \div 2 THEN u - U64Modulus ELSE u

\* number of values of a usize, and of the u64 a variable-length integer decodes
\* to (cursor arithmetic wraps or traps at this)
UsizeModulus == 16
UsizeBits == 4

\* capacity of the buffer create and verify_signature serialise into
PACKET_SIZE_MAX == 12

(***************************************************************************)
(* Address: a fixed-width value; the nil and the reserved value are not    *)
(* addresses (Address::unmarshal yields Option::None for them).            *)
(***************************************************************************)
ADDRESS_NIL == 0
ADDRESS_RESERVED == 3
Address == Byte \ {ADDRESS_NIL, ADDRESS_RESERVED}

(***************************************************************************)
(* Option and Result values: <<>> is None / Err, <<x>> is Some(x) / Ok(x)  *)
(***************************************************************************)
NoneV == <<>>
Some(x) == <<x>>
IsSome(o) == Len(o) = 1
Unwrap(o) == o[1]

(***************************************************************************)
(* Buffer: fixed-width and variable-length integers, raw bytes.  A read    *)
(* past the end of the data is a data-format error (NoneV).                *)
(***************************************************************************)
Pow2(n) == IF n = 0 THEN 1 ELSE IF n = 1 THEN 2 ELSE IF n = 2 THEN 4 ELSE IF n = 3 THEN 8 ELSE 16

\* the bit that marks the last byte of a variable-length integer
VARINT_LAST == ByteModulus \div 2

RECURSIVE varint_write(_)
varint_write(v) ==
    IF v >= VARINT_LAST
    THEN <<v % VARINT_LAST>> \o varint_write(v \div VARINT_LAST)
    ELSE <<v + VARINT_LAST>>

\* v | (bit << (pos mod width)), the shift amount wrapping like wrapping_shl
OrShl(v, bit, pos) ==
    LET k == Pow2(pos % UsizeBits)
    IN IF bit = 1 /\ (v \div k) % 2 = 0 THEN v + k ELSE v

RECURSIVE varint_read_from(_, _, _, _)
varint_read_from(buf, cursor, v, pos) ==
    IF cursor >= Len(buf) THEN NoneV
    ELSE LET b == buf[cursor + 1]
         IN IF b < VARINT_LAST
            THEN varint_read_from(buf, cursor + 1, OrShl(v, b, pos), pos + 1)
            ELSE Some([value |-> OrShl(v, b - VARINT_LAST, pos), cursor |-> cursor + 1])

read_varint(buf, cursor) == varint_read_from(buf, cursor, 0, 0)

read_u64(buf, cursor) ==
    IF cursor + 1 > Len(buf) THEN NoneV
    ELSE Some([value |-> buf[cursor + 1], cursor |-> cursor + 1])

read_bytes(buf, l, cursor) ==
    IF cursor + l > Len(buf) THEN NoneV
    ELSE Some([value |-> SubSeq(buf, cursor + 1, cursor + l), cursor |-> cursor + l])

\* what a Buffer of capacity BL holds after appending bytes: Err when they do not fit
Appended(bytes, BL) == IF Len(bytes) > BL THEN NoneV ELSE Some(bytes)

(***************************************************************************)
(* Address and Endpoint encodings                                          *)
(***************************************************************************)
Address_marshal(a) == <<a>>

\* Result<Option<Address>>: Err on underflow, Ok(None) for nil / reserved
Address_unmarshal(buf, cursor) ==
    IF cursor + 1 > Len(buf) THEN NoneV
    ELSE LET b == buf[cursor + 1]
         IN Some([value |-> IF b \in Address THEN Some(b) ELSE NoneV, cursor |-> cursor + 1])

ENDPOINT_TYPE_UNKNOWN == 3
Endpoint == Byte \ {ENDPOINT_TYPE_UNKNOWN}

Endpoint_marshal(e) == <<e>>

Endpoint_unmarshal(buf, cursor) ==
    IF cursor + 1 > Len(buf) THEN NoneV
    ELSE LET b == buf[cursor + 1]
         IN IF b \in Endpoint THEN Some([value |-> b, cursor |-> cursor + 1]) ELSE NoneV

(***************************************************************************)
(* Identity: address(), sign(bytes), verify(bytes, signature)              *)
(***************************************************************************)
RECURSIVE SumBytes(_)
SumBytes(bytes) == IF bytes = <<>> THEN 0 ELSE Head(bytes) + SumBytes(Tail(bytes))

Identity_mac(id, bytes) == <<(id.key + SumBytes(bytes) + Len(bytes)) % ByteModulus>>

Identity_sign(id, bytes) == IF id.secret THEN Some(Identity_mac(id, bytes)) ELSE NoneV

Identity_verify(id, bytes, sig) == sig = Identity_mac(id, bytes)

Identities ==
    [address : Address, key : {0, 1}, secret : {TRUE}]
        \cup {[address |-> 1, key |-> 0, secret |-> FALSE]}

(***************************************************************************)
(* Locator                                                                 *)
(***************************************************************************)
Locator(subject, signer, timestamp, endpoints, signature) ==
    [subject |-> subject, signer |-> signer, timestamp |-> timestamp,
     endpoints |-> endpoints, signature |-> signature]

is_proxy_signed(l) == l.subject /= l.signer

\* a should_replace that lets the later timestamp win whatever the proxy status
should_replace_ts_only(self, other) == self.timestamp > other.timestamp

\* a should_replace that accepts an equal timestamp
should_replace_ge(self, other) ==
    IF is_proxy_signed(self) = is_proxy_signed(other)
    THEN self.timestamp >= other.timestamp
    ELSE is_proxy_signed(other)

should_replace(self, other) ==
    IF is_proxy_signed(self) = is_proxy_signed(other)
    THEN self.timestamp > other.timestamp
    ELSE is_proxy_signed(other)

(***************************************************************************)
(* Locator: create, marshal, unmarshal, verify_signature                   *)
(***************************************************************************)
RECURSIVE Insert(_, _)
Insert(e, sorted) ==
    IF sorted = <<>> THEN <<e>>
    ELSE IF e <= Head(sorted) THEN <<e>> \o sorted
    ELSE <<Head(sorted)>> \o Insert(e, Tail(sorted))

RECURSIVE sort_unstable(_)
sort_unstable(s) == IF s = <<>> THEN <<>> ELSE Insert(Head(s), sort_unstable(Tail(s)))

\* Vec::dedup: removes consecutive repeated elements
RECURSIVE dedup(_)
dedup(s) ==
    IF Len(s) <= 1 THEN s
    ELSE IF s[1] = s[2] THEN dedup(Tail(s))
    ELSE <<s[1]>> \o dedup(Tail(s))

RECURSIVE marshal_endpoints(_)
marshal_endpoints(eps) ==
    IF eps = <<>> THEN <<>> ELSE Endpoint_marshal(Head(eps)) \o marshal_endpoints(Tail(eps))

\* the bytes marshal_internal appends, in order (wire steps 1-6, then 7)
marshal_bytes(l, exclude_signature) ==
    Address_marshal(l.subject)
        \o Address_marshal(l.signer)
        \o <<as_u64(l.timestamp)>>
        \o varint_write(Len(l.endpoints))
        \o marshal_endpoints(l.endpoints)
        \o varint_write(0)
        \o (IF exclude_signature THEN <<>>
            ELSE varint_write(Len(l.signature)) \o l.signature)

\* a marshal_internal that leaves the reserved extension-length field out
marshal_internal_no_ext(l, exclude_signature, BL) ==
    Appended(Address_marshal(l.subject) \o Address_marshal(l.signer)
                \o <<as_u64(l.timestamp)>>
                \o varint_write(Len(l.endpoints)) \o marshal_endpoints(l.endpoints)
                \o (IF exclude_signature THEN <<>>
                    ELSE varint_write(Len(l.signature)) \o l.signature), BL)

marshal_internal(l, exclude_signature, BL) == Appended(marshal_bytes(l, exclude_signature), BL)

marshal(l, BL) == marshal_internal(l, FALSE, BL)

create(signer_identity, subject, ts, endpoints) ==
    LET loc == Locator(subject, signer_identity.address, ts,
                       dedup(sort_unstable(endpoints)), <<>>)
        buf == marshal_internal(loc, TRUE, PACKET_SIZE_MAX)
    IN IF ~IsSome(buf) THEN NoneV
       ELSE LET sig == Identity_sign(signer_identity, Unwrap(buf))
            IN IF IsSome(sig) THEN Some([loc EXCEPT !.signature = Unwrap(sig)]) ELSE NoneV

\* a verify_signature that does not compare the identity's address with the signer
verify_signature_any_address(l, signer_identity) ==
    LET buf == marshal_internal(l, TRUE, PACKET_SIZE_MAX)
    IN IF IsSome(buf) THEN Identity_verify(signer_identity, Unwrap(buf), l.signature) ELSE FALSE

verify_signature(l, signer_identity) ==
    LET buf == marshal_internal(l, TRUE, PACKET_SIZE_MAX)
    IN IF IsSome(buf)
       THEN IF signer_identity.address = l.signer
            THEN Identity_verify(signer_identity, Unwrap(buf), l.signature)
            ELSE FALSE
       ELSE FALSE

\* outcomes of unmarshal
OutNone == [tag |-> "None", loc |-> NoneV, cursor |-> 0, start |-> 0]
OutErr(kind) == [tag |-> kind, loc |-> NoneV, cursor |-> 0, start |-> 0]
OutOk(l, cursor) == [tag |-> "Ok", loc |-> Some(l), cursor |-> cursor, start |-> 0]
OutPanic == [tag |-> "Panic", loc |-> NoneV, cursor |-> 0, start |-> 0]

\* for _ in 0..endpoint_count { endpoints.push(Endpoint::unmarshal(buf, cursor)?) }
RECURSIVE unmarshal_endpoints(_, _, _, _)
unmarshal_endpoints(buf, cursor, n, acc) ==
    IF n = 0 THEN Some([value |-> acc, cursor |-> cursor])
    ELSE LET e == Endpoint_unmarshal(buf, cursor)
         IN IF ~IsSome(e) THEN NoneV
            ELSE unmarshal_endpoints(buf, Unwrap(e).cursor, n - 1, Append(acc, Unwrap(e).value))

\* the signature length and the signature, read at cursor
unmarshal_signature(buf, cursor, subject, signer, timestamp, endpoints) ==
    LET sl == read_varint(buf, cursor)
    IN IF ~IsSome(sl) THEN OutErr("Err")
       ELSE LET sig == read_bytes(buf, Unwrap(sl).value, Unwrap(sl).cursor)
            IN IF ~IsSome(sig) THEN OutErr("Err")
               ELSE OutOk(Locator(subject, signer, timestamp, endpoints, Unwrap(sig).value),
                          Unwrap(sig).cursor)

\* *cursor += buf.read_varint(cursor)? as usize : the sum overflowing a usize
\* panics where overflow checks are compiled in and wraps where they are not
skip_extension(cursor, ext) ==
    IF cursor + ext >= UsizeModulus
    THEN {[panic |-> TRUE, cursor |-> 0], [panic |-> FALSE, cursor |-> (cursor + ext) % UsizeModulus]}
    ELSE {[panic |-> FALSE, cursor |-> cursor + ext]}

\* the set of outcomes unmarshal can have on buf, starting at cursor
unmarshal(buf, cursor) ==
    LET subject == Address_unmarshal(buf, cursor)
    IN IF ~IsSome(subject) THEN {OutErr("Err")}
       ELSE LET signer == Address_unmarshal(buf, Unwrap(subject).cursor)
            IN IF ~IsSome(signer) THEN {OutErr("Err")}
               ELSE IF ~IsSome(Unwrap(subject).value) \/ ~IsSome(Unwrap(signer).value)
               THEN {OutErr("InvalidAddress")}
               ELSE LET ts == read_u64(buf, Unwrap(signer).cursor)
                    IN IF ~IsSome(ts) THEN {OutErr("Err")}
                       ELSE LET cnt == read_varint(buf, Unwrap(ts).cursor)
                            IN IF ~IsSome(cnt) THEN {OutErr("Err")}
                               ELSE LET eps == unmarshal_endpoints(buf, Unwrap(cnt).cursor,
                                                                   Unwrap(cnt).value, <<>>)
                                    IN IF ~IsSome(eps) THEN {OutErr("Err")}
                                       ELSE LET ext == read_varint(buf, Unwrap(eps).cursor)
                                            IN IF ~IsSome(ext) THEN {OutErr("Err")}
                                               ELSE {IF s.panic THEN OutPanic
                                                     ELSE unmarshal_signature(
                                                            buf, s.cursor,
                                                            Unwrap(Unwrap(subject).value),
                                                            Unwrap(Unwrap(signer).value),
                                                            as_i64(Unwrap(ts).value),
                                                            Unwrap(eps).value) :
                                                     s \in skip_extension(Unwrap(ext).cursor,
                                                                          Unwrap(ext).value)}

(***************************************************************************)
(* impl Ord for Locator                                                    *)
(***************************************************************************)
\* Ord::cmp of two integers (addresses, timestamps, endpoints)
int_cmp(x, y) == IF x < y THEN "Less" ELSE IF x > y THEN "Greater" ELSE "Equal"

\* Ord::cmp of two Vec<Endpoint>: lexicographic, a proper prefix is Less
RECURSIVE vec_cmp(_, _)
vec_cmp(x, y) ==
    IF x = <<>> THEN (IF y = <<>> THEN "Equal" ELSE "Less")
    ELSE IF y = <<>> THEN "Greater"
    ELSE IF int_cmp(Head(x), Head(y)) /= "Equal" THEN int_cmp(Head(x), Head(y))
    ELSE vec_cmp(Tail(x), Tail(y))

cmp(self, other) ==
    LET a == int_cmp(self.subject, other.subject)
    IN IF a = "Equal"
       THEN LET b == int_cmp(self.timestamp, other.timestamp)
            IN IF b = "Equal"
               THEN LET c == int_cmp(self.signer, other.signer)
                    IN IF c = "Equal" THEN vec_cmp(self.endpoints, other.endpoints) ELSE c
               ELSE b
       ELSE a

\* derived PartialEq / Eq: field by field, the signature included
eq(self, other) ==
    /\ self.subject = other.subject
    /\ self.signer = other.signer
    /\ self.timestamp = other.timestamp
    /\ self.endpoints = other.endpoints
    /\ self.signature = other.signature

(***************************************************************************)
(* Path: protocol constants (scaled)                                       *)
(***************************************************************************)
\* sanity limit on the number of assemblies in progress on one path
FRAGMENT_MAX_INBOUND_PACKETS_PER_PATH == 5
\* number of fragment slots of one assembly
FRAGMENT_COUNT_MAX == 3
\* age in ticks at which service drops an assembly
FRAGMENT_EXPIRATION == 1
PATH_KEEPALIVE_INTERVAL == 2
PATH_EXPIRATION_TIME == (PATH_KEEPALIVE_INTERVAL * 2) + 1
NEVER_HAPPENED_TICKS == -100

(***************************************************************************)
(* FragmentedPacket: ts_ticks, the fragment slots filled, have, expecting  *)
(***************************************************************************)
RECURSIVE BitOr(_, _)
BitOr(x, y) ==
    IF x = 0 THEN y
    ELSE IF y = 0 THEN x
    ELSE (IF x % 2 = 1 \/ y % 2 = 1 THEN 1 ELSE 0) + 2 * BitOr(x \div 2, y \div 2)

FragmentedPacket_new(ts) == [ts_ticks |-> ts, frags |-> {}, have |-> 0, expecting |-> 0]

\* <<the assembly after the call, whether all fragments are present>>
add_fragment(f, no, expecting) ==
    IF no >= FRAGMENT_COUNT_MAX THEN <<f, FALSE>>
    ELSE IF no \in f.frags THEN <<f, FALSE>>
    ELSE LET g == [f EXCEPT !.frags = f.frags \cup {no},
                            !.have = f.have + 1,
                            !.expecting = BitOr(f.expecting, expecting)]
         IN <<g, g.have = g.expecting>>

(***************************************************************************)
(* Path::receive_fragment and Path::service                                *)
(***************************************************************************)
\* the table without the keys in ks
remove_all(fp, ks) == [k \in (DOMAIN fp) \ ks |-> fp[k]]

\* a count of evictions that leaves the table alone
evict_count_none(fps) == 0

\* for i in 0..(fps / 3)
evict_count(fps) == fps \div 3

\* the keys of S that come last when sorted by ts_ticks
first_sorted_newest(fp, S) == {x \in S : \A y \in S : fp[x].ts_ticks >= fp[y].ts_ticks}

\* the keys of S that can stand first after entries.sort_unstable_by(ts_ticks):
\* the order among equal ticks is whatever the map's iteration and the sort give
first_sorted(fp, S) == {x \in S : \A y \in S : fp[x].ts_ticks <= fp[y].ts_ticks}

\* the sets of keys the first n entries of the sorted vector can hold
RECURSIVE sorted_prefix(_, _, _)
sorted_prefix(fp, S, n) ==
    IF n = 0 \/ S = {} THEN {{}}
    ELSE UNION {{{m} \cup r : r \in sorted_prefix(fp, S \ {m}, n - 1)} : m \in first_sorted(fp, S)}

\* the sets of keys the eviction loop can remove on entry
evictions(fp) ==
    LET fps == Cardinality(DOMAIN fp)
    IN IF fps > FRAGMENT_MAX_INBOUND_PACKETS_PER_PATH
       THEN sorted_prefix(fp, DOMAIN fp, evict_count(fps))
       ELSE {{}}

\* a lookup that stamps a new assembly with tick 0 instead of the tick of the call
entry_or_insert_tick_zero(fp, packet_id, time_ticks) ==
    IF packet_id \in DOMAIN fp THEN fp[packet_id] ELSE FragmentedPacket_new(0)

\* fp.entry(packet_id).or_insert_with(|| FragmentedPacket::new(time_ticks))
entry_or_insert(fp, packet_id, time_ticks) ==
    IF packet_id \in DOMAIN fp THEN fp[packet_id] ELSE FragmentedPacket_new(time_ticks)

\* a removal of the completed assembly that leaves it in the table
remove_completed_not(fp, packet_id) == fp

\* fp.remove(&packet_id)
remove_completed(fp, packet_id) == remove_all(fp, {packet_id})

\* the outcomes of receive_fragment: the table after, the packet returned, the keys evicted
receive_fragment(fp, packet_id, fragment_no, fragment_expecting_count, time_ticks) ==
    {LET kept == remove_all(fp, ev)
         added == add_fragment(entry_or_insert(kept, packet_id, time_ticks),
                               fragment_no, fragment_expecting_count)
         inserted == [k \in (DOMAIN kept) \cup {packet_id} |->
                          IF k = packet_id THEN added[1] ELSE kept[k]]
     IN IF added[2]
        THEN [fp |-> remove_completed(inserted, packet_id), ret |-> Some(inserted[packet_id]),
              evicted |-> ev]
        ELSE [fp |-> inserted, ret |-> NoneV, evicted |-> ev] :
     ev \in evictions(fp)}

\* a retain that keeps an assembly for one tick more
retain_fresh_le(fp, time_ticks) ==
    remove_all(fp, {k \in DOMAIN fp : ~((time_ticks - fp[k].ts_ticks) <= FRAGMENT_EXPIRATION)})

\* retain(|_, frag| (time_ticks - frag.ts_ticks) < FRAGMENT_EXPIRATION)
retain_fresh(fp, time_ticks) ==
    remove_all(fp, {k \in DOMAIN fp : ~((time_ticks - fp[k].ts_ticks) < FRAGMENT_EXPIRATION)})

\* a service whose grace period of a new Path lasts one tick more
service_classify_grace_le(time_ticks, last_receive, last_send, create_time) ==
    IF (time_ticks - last_receive) < PATH_EXPIRATION_TIME
    THEN IF (time_ticks - last_send) >= PATH_KEEPALIVE_INTERVAL
         THEN <<"NeedsKeepalive", time_ticks>>
         ELSE <<"Ok", last_send>>
    ELSE IF (time_ticks - create_time) <= PATH_EXPIRATION_TIME
    THEN <<"Ok", last_send>>
    ELSE <<"Dead", last_send>>

\* a service that reports NeedsKeepalive without storing the tick
service_classify_no_store(time_ticks, last_receive, last_send, create_time) ==
    IF (time_ticks - last_receive) < PATH_EXPIRATION_TIME
    THEN IF (time_ticks - last_send) >= PATH_KEEPALIVE_INTERVAL
         THEN <<"NeedsKeepalive", last_send>>
         ELSE <<"Ok", last_send>>
    ELSE IF (time_ticks - create_time) < PATH_EXPIRATION_TIME
    THEN <<"Ok", last_send>>
    ELSE <<"Dead", last_send>>

\* <<the classification, last_send_time_ticks after the call>>
service_classify(time_ticks, last_receive, last_send, create_time) ==
    IF (time_ticks - last_receive) < PATH_EXPIRATION_TIME
    THEN IF (time_ticks - last_send) >= PATH_KEEPALIVE_INTERVAL
         THEN <<"NeedsKeepalive", time_ticks>>
         ELSE <<"Ok", last_send>>
    ELSE IF (time_ticks - create_time) < PATH_EXPIRATION_TIME
    THEN <<"Ok", last_send>>
    ELSE <<"Dead", last_send>>

(***************************************************************************)
(* PacketIdHasher: the hasher of the reassembly table (u64 state, scaled)  *)
(***************************************************************************)
\* number of values of the u64 the hasher holds, and its width in bits
HasherModulus == 16
HasherBits == 4
HasherState == 0..(HasherModulus - 1)

RECURSIVE BitXor(_, _)
BitXor(x, y) ==
    IF x = 0 THEN y
    ELSE IF y = 0 THEN x
    ELSE (IF x % 2 /= y % 2 THEN 1 ELSE 0) + 2 * BitXor(x \div 2, y \div 2)

wrapping_add(x, i) == (x + i) % HasherModulus
\* the shift amount is taken modulo the width
wrapping_shl(x, n) == (x * Pow2(n % HasherBits)) % HasherModulus
wrapping_shr(x, n) == x \div Pow2(n % HasherBits)

\* Hasher::write_u64: the state after mixing in i
write_u64(self, i) ==
    LET x0 == wrapping_add(self, i)
        x1 == BitXor(x0, wrapping_shl(x0, 13))
        x2 == BitXor(x1, wrapping_shr(x1, 7))
        x3 == BitXor(x2, wrapping_shl(x2, 17))
    IN x3

\* Hasher::finish
finish(self) == self

\* BuildHasher::build_hasher: the hasher a lookup starts from
build_hasher(self) == 0

\* the hash the table of a Path built with PacketIdHasher(seed) computes for a key
hash_one(seed, packet_id) == finish(write_u64(build_hasher(seed), packet_id))

(***************************************************************************)
(* INSTANCE_ID_COUNTER: an AtomicUsize                                     *)
(***************************************************************************)
\* a fetch_add that returns the value and leaves the counter alone
fetch_add_lost(counter, n) == [ret |-> counter, counter |-> counter]

\* AtomicUsize::fetch_add(n, SeqCst): one indivisible step, wrapping on overflow
fetch_add(counter, n) == [ret |-> counter, counter |-> (counter + n) % UsizeModulus]

(***************************************************************************)
(* Bounds of the model                                                     *)
(***************************************************************************)
\* longest endpoint list handed to create
MaxEndpoints == 3
\* longest byte string assembled byte by byte as wire input
MaxWireLen == 8
\* largest starting cursor handed to unmarshal
MaxStartCursor == 1
\* largest tick handed to receive_fragment and service
MaxTick == 1
\* largest tick handed to the calls on a Path followed over its lifetime
MaxLiveTick == 6
\* number of threads calling service on one Path, and the largest tick they pass
MaxServiceThreads == 2
MaxRaceTick == 1
\* number of threads constructing Paths
MaxNewThreads == 2
\* number of Path::new calls in one run
MaxNewCalls == 4

(***************************************************************************)
(* State                                                                   *)
(***************************************************************************)
VARIABLES
    ra, rb,        \* the two Locators should_replace is called on
    rres,          \* called: should_replace has returned; ab = ra.should_replace(rb), ba = rb.should_replace(ra)
    made,          \* loc: what create returned; id: the identity it was given; marshal: outcome of marshal(loc)
    wire,          \* the bytes of the buffer marshal wrote or a peer sent
    out,           \* what unmarshal(wire, start) returned
    ver,           \* called: verify_signature has returned; on: which Locator; id: the identity; result
    oa, ob, oc,    \* the three Locators cmp and == are called on
    ores,          \* called: the comparisons have returned; ab = oa.cmp(ob), ..., eq_ab = (oa == ob), ...
    fragmented_packets,        \* Path: the table, packet id -> assembly in progress
    last_send_time_ticks,      \* Path
    last_receive_time_ticks,   \* Path
    create_time_ticks,         \* Path
    call,          \* the last call on the Path and its arguments
    ret,           \* what it returned: the packet (receive_fragment), the classification (service), the keys evicted
    hist,          \* dead_at: tick of the first service call that reported Dead; nk_at: tick of the last
                   \* NeedsKeepalive report not followed by a log_send_anything; completed: the
                   \* packet ids whose assembly receive_fragment has returned
    seeds,         \* the values xorshift64_random() gave to the two Paths constructed
    hashes,        \* packet id -> <<hash in the table of the first Path, hash in the table of the second>>
    INSTANCE_ID_COUNTER,       \* the process-wide counter
    constructing,  \* thread -> its position in Path::new and the internal_instance_id it took
    issued,        \* the values fetch_add returned, in the order of its executions
    servicing,     \* thread -> its position in service, its time_ticks, the value it loaded, its result
    mutex,         \* the thread holding the lock of fragmented_packets, 0 when free
    receiving,     \* thread -> its position in receive_fragment, its fragment, its result
    registry,      \* subject -> the Locator kept for it (none: <<>>)
    superseded,    \* subject -> the Locator the kept one replaced (none: <<>>)
    arrived        \* the Locator that arrived last (none: <<>>)

replaceVars == <<ra, rb, rres>>
codecVars == <<made, wire, out, ver>>
ordVars == <<oa, ob, oc, ores>>
pathVars == <<fragmented_packets, last_send_time_ticks, last_receive_time_ticks,
              create_time_ticks, call, ret>>
liveVars == <<hist>>
hashVars == <<seeds, hashes>>
newVars == <<INSTANCE_ID_COUNTER, constructing, issued>>
raceVars == <<servicing, mutex, receiving>>
registryVars == <<registry, superseded, arrived>>
laterVars == <<liveVars, hashVars, newVars, raceVars, registryVars>>
vars == <<ra, rb, rres, made, wire, out, ver, oa, ob, oc, ores,
          fragmented_packets, last_send_time_ticks, last_receive_time_ticks,
          create_time_ticks, call, ret, hist, seeds, hashes, INSTANCE_ID_COUNTER,
          constructing, issued, servicing, mutex, receiving, registry, superseded, arrived>>

MadeNone == [loc |-> NoneV, id |-> NoneV, marshal |-> "no"]
VerNone == [called |-> FALSE, on |-> "none", id |-> NoneV, result |-> FALSE]
RresNone == [called |-> FALSE, ab |-> FALSE, ba |-> FALSE]
LocatorZero == Locator(1, 1, 0, <<>>, <<>>)

ReplaceIdle == ra = LocatorZero /\ rb = LocatorZero /\ rres = RresNone
OresNone == [called |-> FALSE, ab |-> "Equal", ba |-> "Equal", bc |-> "Equal", ac |-> "Equal",
             eq_ab |-> FALSE]
OrdIdle == oa = LocatorZero /\ ob = LocatorZero /\ oc = LocatorZero /\ ores = OresNone
CallNone == [op |-> "none", packet_id |-> 0, fragment_no |-> 0,
             fragment_expecting_count |-> 0, time_ticks |-> 0]
RetNone == [packet |-> NoneV, service |-> "none", evicted |-> {}]
\* Path::new(endpoint, local_socket, local_interface, time_ticks)
Path_new(time_ticks) ==
    /\ fragmented_packets = <<>>
    /\ last_send_time_ticks = NEVER_HAPPENED_TICKS
    /\ last_receive_time_ticks = NEVER_HAPPENED_TICKS
    /\ create_time_ticks = time_ticks
    /\ call = CallNone
    /\ ret = RetNone
CodecIdle == made = MadeNone /\ wire = <<>> /\ out = OutNone /\ ver = VerNone
HistNone == [dead_at |-> NoneV, nk_at |-> NoneV, completed |-> {}]
LiveIdle == hist = HistNone
HashIdle == seeds = <<0, 0>> /\ hashes = <<>>
NewIdle == INSTANCE_ID_COUNTER = 0 /\ constructing = <<>> /\ issued = <<>>
RaceIdle == servicing = <<>> /\ mutex = 0 /\ receiving = <<>>
RegistryIdle == registry = <<>> /\ superseded = <<>> /\ arrived = NoneV
LaterIdle == LiveIdle /\ HashIdle /\ NewIdle /\ RaceIdle /\ RegistryIdle

(***************************************************************************)
(* should_replace on every pair of Locators                                *)
(***************************************************************************)
ReplaceLocators ==
    {Locator(s, g, t, <<>>, <<>>) : s \in Address, g \in Address, t \in I64}

InitReplace ==
    /\ ra \in ReplaceLocators
    /\ rb \in ReplaceLocators
    /\ rres = RresNone
    /\ CodecIdle /\ OrdIdle /\ Path_new(0) /\ LaterIdle

CallShouldReplace ==
    /\ ~rres.called
    /\ rres' = [called |-> TRUE, ab |-> should_replace(ra, rb), ba |-> should_replace(rb, ra)]
    /\ UNCHANGED <<ra, rb>>
    /\ UNCHANGED <<codecVars, ordVars, pathVars, laterVars>>

NextReplace == CallShouldReplace

SpecReplace == InitReplace /\ [][NextReplace]_vars

(***************************************************************************)
(* create, marshal, unmarshal and verify_signature                         *)
(***************************************************************************)
RECURSIVE SeqsUpTo(_, _)
SeqsUpTo(S, n) ==
    IF n = 0 THEN {<<>>}
    ELSE LET shorter == SeqsUpTo(S, n - 1)
         IN shorter \cup {Append(q, e) : q \in {r \in shorter : Len(r) = n - 1}, e \in S}

EndpointLists == SeqsUpTo(Endpoint, MaxEndpoints)

\* capacities BL of the buffers marshal is instantiated with
BufferCapacities == {PACKET_SIZE_MAX - 4, PACKET_SIZE_MAX}

InitCodec == ReplaceIdle /\ CodecIdle /\ OrdIdle /\ Path_new(0) /\ LaterIdle

Create ==
    /\ CodecIdle
    /\ \E id \in Identities, subject \in Address, ts \in I64, endpoints \in EndpointLists :
           made' = [loc |-> create(id, subject, ts, endpoints), id |-> Some(id), marshal |-> "no"]
    /\ UNCHANGED <<wire, out, ver>>
    /\ UNCHANGED <<replaceVars, ordVars, pathVars, laterVars>>

Marshal ==
    /\ IsSome(made.loc) /\ made.marshal = "no" /\ ~ver.called /\ out = OutNone
    /\ \E BL \in BufferCapacities :
           LET buf == marshal(Unwrap(made.loc), BL)
           IN IF IsSome(buf)
              THEN made' = [made EXCEPT !.marshal = "ok"] /\ wire' = Unwrap(buf)
              ELSE made' = [made EXCEPT !.marshal = "err"] /\ wire' = <<>>
    /\ UNCHANGED <<out, ver>>
    /\ UNCHANGED <<replaceVars, ordVars, pathVars, laterVars>>

\* a peer or the network changes one byte of a marshalled Locator
Tamper ==
    /\ made.marshal = "ok" /\ out = OutNone
    /\ \E i \in 1..Len(wire) : \E b \in Byte \ {wire[i]} : wire' = [wire EXCEPT ![i] = b]
    /\ made' = MadeNone
    /\ UNCHANGED <<out, ver>>
    /\ UNCHANGED <<replaceVars, ordVars, pathVars, laterVars>>

\* a peer sends arbitrary bytes
AppendByte ==
    /\ made = MadeNone /\ out = OutNone
    /\ Len(wire) < MaxWireLen
    /\ \E b \in Byte : wire' = Append(wire, b)
    /\ UNCHANGED <<made, out, ver>>
    /\ UNCHANGED <<replaceVars, ordVars, pathVars, laterVars>>

Unmarshal ==
    /\ out = OutNone /\ ~ver.called
    /\ made = MadeNone \/ made.marshal = "ok"
    /\ \E start \in 0..MaxStartCursor :
           \E o \in unmarshal(wire, start) : out' = [o EXCEPT !.start = start]
    /\ UNCHANGED <<made, wire, ver>>
    /\ UNCHANGED <<replaceVars, ordVars, pathVars, laterVars>>

VerifyMade ==
    /\ ~ver.called /\ IsSome(made.loc) /\ made.marshal = "no"
    /\ \E id \in Identities :
           ver' = [called |-> TRUE, on |-> "made", id |-> Some(id),
                   result |-> verify_signature(Unwrap(made.loc), id)]
    /\ UNCHANGED <<made, wire, out>>
    /\ UNCHANGED <<replaceVars, ordVars, pathVars, laterVars>>

VerifyUnmarshalled ==
    /\ ~ver.called /\ out.tag = "Ok"
    /\ \E id \in Identities :
           ver' = [called |-> TRUE, on |-> "out", id |-> Some(id),
                   result |-> verify_signature(Unwrap(out.loc), id)]
    /\ UNCHANGED <<made, wire, out>>
    /\ UNCHANGED <<replaceVars, ordVars, pathVars, laterVars>>

NextCodec ==
    \/ Create
    \/ Marshal
    \/ Tamper
    \/ AppendByte
    \/ Unmarshal
    \/ VerifyMade
    \/ VerifyUnmarshalled

SpecCodec == InitCodec /\ [][NextCodec]_vars

(***************************************************************************)
(* cmp and == on every triple of Locators                                  *)
(***************************************************************************)
\* the Locators compared: those unmarshal returns for their own encoding
OrdLocators ==
    {l \in {Locator(s, g, t, e, sig) :
                s \in Address, g \in Address, t \in {I64_MIN, 0},
                e \in {<<>>, <<0>>, <<0, 1>>}, sig \in {<<0>>, <<1>>}} :
        OutOk(l, Len(marshal_bytes(l, FALSE))) \in unmarshal(marshal_bytes(l, FALSE), 0)}

InitOrd ==
    /\ oa \in OrdLocators
    /\ ob \in OrdLocators
    /\ oc \in OrdLocators
    /\ ores = OresNone
    /\ ReplaceIdle /\ CodecIdle /\ Path_new(0) /\ LaterIdle

CallCmp ==
    /\ ~ores.called
    /\ ores' = [called |-> TRUE, ab |-> cmp(oa, ob), ba |-> cmp(ob, oa), bc |-> cmp(ob, oc),
                ac |-> cmp(oa, oc), eq_ab |-> eq(oa, ob)]
    /\ UNCHANGED <<oa, ob, oc>>
    /\ UNCHANGED <<replaceVars, codecVars, pathVars, laterVars>>

NextOrd == CallCmp

SpecOrd == InitOrd /\ [][NextOrd]_vars

(***************************************************************************)
(* A Path receiving fragments and being serviced                           *)
(***************************************************************************)
Ticks == 0..MaxTick

InitPath == ReplaceIdle /\ CodecIdle /\ OrdIdle /\ Path_new(0) /\ LaterIdle

ReceiveFragment(ids, nos, counts, ticks) ==
    /\ \E packet_id \in ids, fragment_no \in nos, count \in counts, time_ticks \in ticks :
         \E o \in receive_fragment(fragmented_packets, packet_id, fragment_no, count, time_ticks) :
            /\ fragmented_packets' = o.fp
            /\ call' = [op |-> "receive_fragment", packet_id |-> packet_id,
                        fragment_no |-> fragment_no, fragment_expecting_count |-> count,
                        time_ticks |-> time_ticks]
            /\ ret' = [packet |-> o.ret, service |-> "none", evicted |-> o.evicted]
            /\ hist' = [hist EXCEPT !.completed =
                            IF IsSome(o.ret) THEN hist.completed \cup {packet_id}
                            ELSE hist.completed]
    /\ UNCHANGED <<last_send_time_ticks, last_receive_time_ticks, create_time_ticks>>
    /\ UNCHANGED <<replaceVars, codecVars, ordVars, hashVars, newVars, raceVars, registryVars>>

\* the smaller of the tick recorded and this one
EarlierTick(recorded, time_ticks) ==
    IF IsSome(recorded) /\ Unwrap(recorded) <= time_ticks THEN recorded ELSE Some(time_ticks)

ServiceAt(ticks) ==
    /\ \E time_ticks \in ticks :
         LET c == service_classify(time_ticks, last_receive_time_ticks, last_send_time_ticks,
                                   create_time_ticks)
         IN /\ fragmented_packets' = retain_fresh(fragmented_packets, time_ticks)
            /\ last_send_time_ticks' = c[2]
            /\ call' = [CallNone EXCEPT !.op = "service", !.time_ticks = time_ticks]
            /\ ret' = [RetNone EXCEPT !.service = c[1]]
            /\ hist' = [dead_at |-> IF c[1] = "Dead" THEN EarlierTick(hist.dead_at, time_ticks)
                                    ELSE hist.dead_at,
                        nk_at |-> IF c[1] = "NeedsKeepalive" THEN Some(time_ticks)
                                  ELSE hist.nk_at,
                        completed |-> hist.completed]
    /\ UNCHANGED <<last_receive_time_ticks, create_time_ticks>>
    /\ UNCHANGED <<replaceVars, codecVars, ordVars, hashVars, newVars, raceVars, registryVars>>

Service == ServiceAt(Ticks)

\* log_receive_anything(time_ticks)
LogReceiveAnythingAt(ticks) ==
    /\ \E time_ticks \in ticks :
         /\ last_receive_time_ticks' = time_ticks
         /\ call' = [CallNone EXCEPT !.op = "log_receive_anything", !.time_ticks = time_ticks]
    /\ ret' = RetNone
    /\ UNCHANGED <<fragmented_packets, last_send_time_ticks, create_time_ticks>>
    /\ UNCHANGED <<replaceVars, codecVars, ordVars, laterVars>>

\* log_send_anything(time_ticks)
LogSendAnythingAt(ticks) ==
    /\ \E time_ticks \in ticks :
         /\ last_send_time_ticks' = time_ticks
         /\ call' = [CallNone EXCEPT !.op = "log_send_anything", !.time_ticks = time_ticks]
    /\ ret' = RetNone
    /\ hist' = [hist EXCEPT !.nk_at = NoneV]
    /\ UNCHANGED <<fragmented_packets, last_receive_time_ticks, create_time_ticks>>
    /\ UNCHANGED <<replaceVars, codecVars, ordVars, hashVars, newVars, raceVars, registryVars>>

\* the fragments of two packets, in any order, with any fragment number and count
FragPacketIds == {1, 2}
FragmentNos == 0..FRAGMENT_COUNT_MAX
FragmentCounts == 1..FRAGMENT_COUNT_MAX

ReceiveAnyFragment == ReceiveFragment(FragPacketIds, FragmentNos, FragmentCounts, Ticks)

NextFrag == ReceiveAnyFragment \/ Service

SpecFrag == InitPath /\ [][NextFrag]_vars

\* a flood: one fragment each for many packet identifiers, none ever completing
FloodPacketIds == 1..(FRAGMENT_MAX_INBOUND_PACKETS_PER_PATH + 2)

ReceiveFloodFragment == ReceiveFragment(FloodPacketIds, {0}, {FRAGMENT_COUNT_MAX}, Ticks)

NextFlood == ReceiveFloodFragment \/ Service

SpecFlood == InitPath /\ [][NextFlood]_vars

(***************************************************************************)
(* A Path over its lifetime: service, the activity hooks, fragments        *)
(***************************************************************************)
LiveTicks == 0..MaxLiveTick
LiveCreateTicks == {0, 1}
LivePacketIds == {1}

InitLive ==
    /\ ReplaceIdle /\ CodecIdle /\ OrdIdle /\ LaterIdle
    /\ \E time_ticks \in LiveCreateTicks : Path_new(time_ticks)

ServiceLive == ServiceAt(LiveTicks)
LogReceiveAnything == LogReceiveAnythingAt(LiveTicks)
LogSendAnything == LogSendAnythingAt(LiveTicks)
ReceiveLiveFragment == ReceiveFragment(LivePacketIds, {0}, {2}, LiveTicks)

NextLive == ServiceLive \/ LogReceiveAnything \/ LogSendAnything \/ ReceiveLiveFragment

SpecLive == InitLive /\ [][NextLive]_vars

(***************************************************************************)
(* Two Paths, each with its own PacketIdHasher, hashing packet identifiers *)
(***************************************************************************)
HashPacketIds == {0, 1, 6, HasherModulus - 1}

\* Path::new twice: each draws PacketIdHasher(xorshift64_random())
InitHash ==
    /\ ReplaceIdle /\ CodecIdle /\ OrdIdle /\ Path_new(0)
    /\ LiveIdle /\ NewIdle /\ RaceIdle /\ RegistryIdle
    /\ seeds \in HasherState \X HasherState
    /\ hashes = <<>>

\* both tables hash a packet identifier
HashPacketId ==
    /\ \E packet_id \in HashPacketIds \ DOMAIN hashes :
         hashes' = [k \in (DOMAIN hashes) \cup {packet_id} |->
                        IF k = packet_id
                        THEN <<hash_one(seeds[1], packet_id), hash_one(seeds[2], packet_id)>>
                        ELSE hashes[k]]
    /\ UNCHANGED seeds
    /\ UNCHANGED <<replaceVars, codecVars, ordVars, pathVars, liveVars, newVars, raceVars,
                   registryVars>>

NextHash == HashPacketId

SpecHash == InitHash /\ [][NextHash]_vars

(***************************************************************************)
(* Threads constructing Paths: Path::new takes its internal_instance_id    *)
(* from the process-wide counter                                           *)
(***************************************************************************)
NewThreads == 1..MaxNewThreads

\* pc: "idle" outside Path::new, "fetch" before the fetch_add, "build" after it;
\* id: the value fetch_add returned; made: the internal_instance_id of each Path
\* this thread has constructed, in order
NewThreadIdle == [pc |-> "idle", id |-> 0, made |-> <<>>]

\* the Path::new calls begun so far
NewCalls ==
    LET RECURSIVE Sum(_)
        Sum(n) == IF n = 0 THEN 0
                  ELSE Len(constructing[n].made) + (IF constructing[n].pc = "idle" THEN 0 ELSE 1)
                       + Sum(n - 1)
    IN Sum(MaxNewThreads)

InitNew ==
    /\ ReplaceIdle /\ CodecIdle /\ OrdIdle /\ Path_new(0)
    /\ LiveIdle /\ HashIdle /\ RaceIdle /\ RegistryIdle
    /\ INSTANCE_ID_COUNTER = 0
    /\ constructing = [th \in NewThreads |-> NewThreadIdle]
    /\ issued = <<>>

\* a thread enters Path::new
PathNewCall ==
    /\ NewCalls < MaxNewCalls
    /\ \E th \in NewThreads :
         /\ constructing[th].pc = "idle"
         /\ constructing' = [constructing EXCEPT ![th].pc = "fetch"]
    /\ UNCHANGED <<INSTANCE_ID_COUNTER, issued>>
    /\ UNCHANGED <<replaceVars, codecVars, ordVars, pathVars, liveVars, hashVars, raceVars,
                   registryVars>>

\* INSTANCE_ID_COUNTER.fetch_add(1, Ordering::SeqCst)
PathNewFetchAdd ==
    /\ \E th \in NewThreads :
         /\ constructing[th].pc = "fetch"
         /\ LET f == fetch_add(INSTANCE_ID_COUNTER, 1)
            IN /\ INSTANCE_ID_COUNTER' = f.counter
               /\ constructing' = [constructing EXCEPT ![th].pc = "build", ![th].id = f.ret]
               /\ issued' = Append(issued, f.ret)
    /\ UNCHANGED <<replaceVars, codecVars, ordVars, pathVars, liveVars, hashVars, raceVars,
                   registryVars>>

\* the Path is built with the value taken and returned to the caller
PathNewReturn ==
    /\ \E th \in NewThreads :
         /\ constructing[th].pc = "build"
         /\ constructing' = [constructing EXCEPT
                                ![th].pc = "idle",
                                ![th].made = Append(constructing[th].made, constructing[th].id)]
    /\ UNCHANGED <<INSTANCE_ID_COUNTER, issued>>
    /\ UNCHANGED <<replaceVars, codecVars, ordVars, pathVars, liveVars, hashVars, raceVars,
                   registryVars>>

NextNew == PathNewCall \/ PathNewFetchAdd \/ PathNewReturn

SpecNew == InitNew /\ [][NextNew]_vars

(***************************************************************************)
(* Threads calling service on one Path: each load and store of the atomic  *)
(* timestamps is a step of its own                                         *)
(***************************************************************************)
ServiceThreads == 1..MaxServiceThreads
RaceTicks == 0..MaxRaceTick

\* pc: "idle" before the call, then "retain", "load_receive", "load_send",
\* "store", and "done" once the call has returned ret
ServiceThreadIdle == [pc |-> "idle", time_ticks |-> 0, ret |-> "none"]

InitServiceRace ==
    /\ ReplaceIdle /\ CodecIdle /\ OrdIdle /\ Path_new(0)
    /\ LiveIdle /\ HashIdle /\ NewIdle /\ RegistryIdle
    /\ servicing = [th \in ServiceThreads |-> ServiceThreadIdle]
    /\ mutex = 0
    /\ receiving = <<>>

\* the transport logs a receive on the Path
RaceLogReceiveAnything == LogReceiveAnythingAt(RaceTicks)

\* a thread enters service(time_ticks)
ServiceCall ==
    /\ \E th \in ServiceThreads, time_ticks \in RaceTicks :
         /\ servicing[th].pc = "idle"
         /\ servicing' = [servicing EXCEPT ![th].pc = "retain", ![th].time_ticks = time_ticks]
    /\ UNCHANGED <<mutex, receiving>>
    /\ UNCHANGED <<replaceVars, codecVars, ordVars, pathVars, liveVars, hashVars, newVars,
                   registryVars>>

\* self.fragmented_packets.lock().retain(..): the lock is held for this statement
ServiceRetain ==
    /\ mutex = 0
    /\ \E th \in ServiceThreads :
         /\ servicing[th].pc = "retain"
         /\ fragmented_packets' = retain_fresh(fragmented_packets, servicing[th].time_ticks)
         /\ servicing' = [servicing EXCEPT ![th].pc = "load_receive"]
    /\ UNCHANGED <<last_send_time_ticks, last_receive_time_ticks, create_time_ticks, call, ret>>
    /\ UNCHANGED <<mutex, receiving>>
    /\ UNCHANGED <<replaceVars, codecVars, ordVars, liveVars, hashVars, newVars, registryVars>>

\* self.last_receive_time_ticks.load(Relaxed), and the branches it decides
ServiceLoadReceive ==
    /\ \E th \in ServiceThreads :
         /\ servicing[th].pc = "load_receive"
         /\ LET time_ticks == servicing[th].time_ticks
            IN servicing' =
                 IF (time_ticks - last_receive_time_ticks) < PATH_EXPIRATION_TIME
                 THEN [servicing EXCEPT ![th].pc = "load_send"]
                 ELSE IF (time_ticks - create_time_ticks) < PATH_EXPIRATION_TIME
                 THEN [servicing EXCEPT ![th].pc = "done", ![th].ret = "Ok"]
                 ELSE [servicing EXCEPT ![th].pc = "done", ![th].ret = "Dead"]
    /\ UNCHANGED <<mutex, receiving>>
    /\ UNCHANGED <<replaceVars, codecVars, ordVars, pathVars, liveVars, hashVars, newVars,
                   registryVars>>

\* self.last_send_time_ticks.load(Relaxed), compared with the keepalive interval
ServiceLoadSend ==
    /\ \E th \in ServiceThreads :
         /\ servicing[th].pc = "load_send"
         /\ servicing' =
              IF (servicing[th].time_ticks - last_send_time_ticks) >= PATH_KEEPALIVE_INTERVAL
              THEN [servicing EXCEPT ![th].pc = "store"]
              ELSE [servicing EXCEPT ![th].pc = "done", ![th].ret = "Ok"]
    /\ UNCHANGED <<mutex, receiving>>
    /\ UNCHANGED <<replaceVars, codecVars, ordVars, pathVars, liveVars, hashVars, newVars,
                   registryVars>>

\* self.last_send_time_ticks.store(time_ticks, Relaxed); NeedsKeepalive
ServiceStore ==
    /\ \E th \in ServiceThreads :
         /\ servicing[th].pc = "store"
         /\ last_send_time_ticks' = servicing[th].time_ticks
         /\ servicing' = [servicing EXCEPT ![th].pc = "done", ![th].ret = "NeedsKeepalive"]
    /\ UNCHANGED <<fragmented_packets, last_receive_time_ticks, create_time_ticks, call, ret>>
    /\ UNCHANGED <<mutex, receiving>>
    /\ UNCHANGED <<replaceVars, codecVars, ordVars, liveVars, hashVars, newVars, registryVars>>

NextServiceRace ==
    \/ RaceLogReceiveAnything
    \/ ServiceCall
    \/ ServiceRetain
    \/ ServiceLoadReceive
    \/ ServiceLoadSend
    \/ ServiceStore

SpecServiceRace == InitServiceRace /\ [][NextServiceRace]_vars

(***************************************************************************)
(* Threads delivering the fragments of one packet to receive_fragment      *)
(***************************************************************************)
ReceiveThreads == 1..FRAGMENT_COUNT_MAX
RacePacketId == 1

\* a lock that every thread finds free
lock_free_always(m) == TRUE

\* Mutex::lock returns once no thread holds the mutex
lock_free(m) == m = 0

\* pc: "unused" (no fragment for this thread), "idle" before the call, then
\* "lock", "evict", "entry", "add", "remove", and "done" once the call has
\* returned ret; entry: the assembly looked up; complete: what add_fragment said
ReceiveThread(pc, fragment_no, count) ==
    [pc |-> pc, fragment_no |-> fragment_no, fragment_expecting_count |-> count,
     time_ticks |-> 0, entry |-> NoneV, complete |-> FALSE, ret |-> NoneV]

\* thread th holds fragment th - 1 of a packet of N fragments
InitFragRace ==
    /\ ReplaceIdle /\ CodecIdle /\ OrdIdle /\ Path_new(0)
    /\ LiveIdle /\ HashIdle /\ NewIdle /\ RegistryIdle
    /\ servicing = <<>>
    /\ mutex = 0
    /\ \E N \in 2..FRAGMENT_COUNT_MAX :
         receiving = [th \in ReceiveThreads |->
                         ReceiveThread(IF th <= N THEN "idle" ELSE "unused", th - 1, N)]

\* a thread enters receive_fragment(packet_id, fragment_no, count, packet, time_ticks)
ReceiveCall ==
    /\ \E th \in ReceiveThreads, time_ticks \in RaceTicks :
         /\ receiving[th].pc = "idle"
         /\ receiving' = [receiving EXCEPT ![th].pc = "lock", ![th].time_ticks = time_ticks]
    /\ UNCHANGED <<servicing, mutex>>
    /\ UNCHANGED <<replaceVars, codecVars, ordVars, pathVars, liveVars, hashVars, newVars,
                   registryVars>>

\* let mut fp = self.fragmented_packets.lock()
ReceiveLock ==
    /\ \E th \in ReceiveThreads :
         /\ receiving[th].pc = "lock"
         /\ lock_free(mutex)
         /\ mutex' = th
         /\ receiving' = [receiving EXCEPT ![th].pc = "evict"]
    /\ UNCHANGED servicing
    /\ UNCHANGED <<replaceVars, codecVars, ordVars, pathVars, liveVars, hashVars, newVars,
                   registryVars>>

\* the eviction of the oldest third when the table is over the sanity limit
ReceiveEvict ==
    /\ \E th \in ReceiveThreads :
         /\ receiving[th].pc = "evict"
         /\ \E ev \in evictions(fragmented_packets) :
              fragmented_packets' = remove_all(fragmented_packets, ev)
         /\ receiving' = [receiving EXCEPT ![th].pc = "entry"]
    /\ UNCHANGED <<last_send_time_ticks, last_receive_time_ticks, create_time_ticks, call, ret>>
    /\ UNCHANGED <<servicing, mutex>>
    /\ UNCHANGED <<replaceVars, codecVars, ordVars, liveVars, hashVars, newVars, registryVars>>

\* fp.entry(packet_id).or_insert_with(|| FragmentedPacket::new(time_ticks))
ReceiveEntry ==
    /\ \E th \in ReceiveThreads :
         /\ receiving[th].pc = "entry"
         /\ LET e == entry_or_insert(fragmented_packets, RacePacketId, receiving[th].time_ticks)
            IN /\ fragmented_packets' =
                     [k \in (DOMAIN fragmented_packets) \cup {RacePacketId} |->
                         IF k = RacePacketId THEN e ELSE fragmented_packets[k]]
               /\ receiving' = [receiving EXCEPT ![th].pc = "add", ![th].entry = Some(e)]
    /\ UNCHANGED <<last_send_time_ticks, last_receive_time_ticks, create_time_ticks, call, ret>>
    /\ UNCHANGED <<servicing, mutex>>
    /\ UNCHANGED <<replaceVars, codecVars, ordVars, liveVars, hashVars, newVars, registryVars>>

\* .add_fragment(packet, fragment_no, fragment_expecting_count) on the entry
ReceiveAdd ==
    /\ \E th \in ReceiveThreads :
         /\ receiving[th].pc = "add"
         /\ LET added == add_fragment(Unwrap(receiving[th].entry), receiving[th].fragment_no,
                                      receiving[th].fragment_expecting_count)
            IN /\ fragmented_packets' =
                     [k \in DOMAIN fragmented_packets |->
                         IF k = RacePacketId THEN added[1] ELSE fragmented_packets[k]]
               /\ receiving' = [receiving EXCEPT ![th].pc = "remove", ![th].complete = added[2]]
    /\ UNCHANGED <<last_send_time_ticks, last_receive_time_ticks, create_time_ticks, call, ret>>
    /\ UNCHANGED <<servicing, mutex>>
    /\ UNCHANGED <<replaceVars, codecVars, ordVars, liveVars, hashVars, newVars, registryVars>>

\* fp.remove(&packet_id) or None; the lock is released as the call returns
ReceiveRemove ==
    /\ \E th \in ReceiveThreads :
         /\ receiving[th].pc = "remove"
         /\ IF receiving[th].complete
            THEN /\ fragmented_packets' = remove_completed(fragmented_packets, RacePacketId)
                 /\ receiving' = [receiving EXCEPT
                                     ![th].pc = "done",
                                     ![th].ret = IF RacePacketId \in DOMAIN fragmented_packets
                                                 THEN Some(fragmented_packets[RacePacketId])
                                                 ELSE NoneV]
            ELSE /\ fragmented_packets' = fragmented_packets
                 /\ receiving' = [receiving EXCEPT ![th].pc = "done", ![th].ret = NoneV]
    /\ mutex' = 0
    /\ UNCHANGED <<last_send_time_ticks, last_receive_time_ticks, create_time_ticks, call, ret>>
    /\ UNCHANGED servicing
    /\ UNCHANGED <<replaceVars, codecVars, ordVars, liveVars, hashVars, newVars, registryVars>>

NextFragRace ==
    \/ ReceiveCall
    \/ ReceiveLock
    \/ ReceiveEvict
    \/ ReceiveEntry
    \/ ReceiveAdd
    \/ ReceiveRemove

SpecFragRace == InitFragRace /\ [][NextFragRace]_vars

(***************************************************************************)
(* A registry keeping one Locator per subject, replaced by an arriving     *)
(* Locator exactly when arriving.should_replace(kept)                      *)
(***************************************************************************)
RegistryLocators ==
    {Locator(s, g, t, <<>>, <<>>) : s \in Address, g \in Address, t \in I64}

InitRegistry ==
    /\ ReplaceIdle /\ CodecIdle /\ OrdIdle /\ Path_new(0)
    /\ LiveIdle /\ HashIdle /\ NewIdle /\ RaceIdle
    /\ registry = [s \in Address |-> NoneV]
    /\ superseded = [s \in Address |-> NoneV]
    /\ arrived = NoneV

\* a Locator arrives: it is kept when none is kept for its subject or when it
\* should replace the one kept
Arrive ==
    /\ \E l \in RegistryLocators :
         /\ arrived' = Some(l)
         /\ IF registry[l.subject] = NoneV
            THEN /\ registry' = [registry EXCEPT ![l.subject] = Some(l)]
                 /\ superseded' = superseded
            ELSE IF should_replace(l, Unwrap(registry[l.subject]))
            THEN /\ registry' = [registry EXCEPT ![l.subject] = Some(l)]
                 /\ superseded' = [superseded EXCEPT ![l.subject] = registry[l.subject]]
            ELSE /\ registry' = registry
                 /\ superseded' = superseded
    /\ UNCHANGED <<replaceVars, codecVars, ordVars, pathVars, liveVars, hashVars, newVars,
                   raceVars>>

NextRegistry == Arrive

SpecRegistry == InitRegistry /\ [][NextRegistry]_vars

(***************************************************************************)
(* The whole program: every operation of Locator and Path                  *)
(***************************************************************************)
Init == InitPath

Next == NextReplace \/ NextCodec \/ NextOrd \/ NextFrag \/ NextFlood \/ NextLive \/ NextHash \/ NextNew \/ NextServiceRace
          \/ NextFragRace \/ NextRegistry

Spec == Init /\ [][Next]_vars

(***************************************************************************)
(* Properties of should_replace                                            *)
(***************************************************************************)
\* C1: when exactly one of the two Locators is proxy-signed, should_replace is
\* true called on the self-signed one and false called on the proxy-signed one,
\* for every pair of timestamps.
C1_SelfSignedAlwaysWins ==
    (rres.called /\ is_proxy_signed(ra) /= is_proxy_signed(rb)) =>
        /\ rres.ab = is_proxy_signed(rb)
        /\ rres.ba = is_proxy_signed(ra)

\* the self-signed Locator has timestamp 0, the proxy-signed one i64::MAX
C1_Witness ==
    /\ rres.called
    /\ ~is_proxy_signed(ra) /\ ra.timestamp = 0
    /\ is_proxy_signed(rb) /\ rb.timestamp = I64_MAX
    /\ rres.ab = TRUE /\ rres.ba = FALSE

\* C2: when both Locators have the same proxy status, should_replace is true
\* exactly when the timestamp of self is strictly greater; equal timestamps
\* give false in both directions.
C2_SameStatusLaterWins ==
    (rres.called /\ is_proxy_signed(ra) = is_proxy_signed(rb)) =>
        /\ rres.ab = (ra.timestamp > rb.timestamp)
        /\ rres.ba = (rb.timestamp > ra.timestamp)
        /\ (ra.timestamp = rb.timestamp => (~rres.ab /\ ~rres.ba))

\* two proxy-signed Locators with equal timestamps: neither replaces the other
C2_Witness ==
    /\ rres.called
    /\ is_proxy_signed(ra) /\ is_proxy_signed(rb)
    /\ ra.timestamp = rb.timestamp
    /\ ~rres.ab /\ ~rres.ba

(***************************************************************************)
(* Properties of create, marshal, unmarshal and verify_signature           *)
(***************************************************************************)
IsSortedDedup(eps) == \A i \in 1..(Len(eps) - 1) : eps[i] < eps[i + 1]

\* the Locator the last verify_signature call was made on
Verified == IF ver.on = "made" THEN Unwrap(made.loc) ELSE Unwrap(out.loc)

\* C3: verify_signature(identity) is true exactly when identity.address() is the
\* stored signer and identity.verify accepts the stored signature over the
\* encoding of wire steps 1-6; it is true for a Locator create just returned,
\* checked with the identity that signed it.
C3_VerifyExactlyWhenSignerAndSignatureMatch ==
    ver.called =>
        /\ ver.result \in BOOLEAN
        /\ ver.result =
               (/\ Unwrap(ver.id).address = Verified.signer
                /\ Identity_verify(Unwrap(ver.id), marshal_bytes(Verified, TRUE),
                                   Verified.signature))
        /\ (ver.on = "made" /\ ver.id = made.id) => ver.result

\* an identity with another address whose verify accepts the signature is refused
C3_Witness ==
    /\ ver.called
    /\ Unwrap(ver.id).address /= Verified.signer
    /\ Identity_verify(Unwrap(ver.id), marshal_bytes(Verified, TRUE), Verified.signature)
    /\ ~ver.result

\* C4: for a Locator x returned by create, unmarshal(marshal(x)) from cursor 0
\* succeeds, yields x (subject, signer, timestamp, sorted and deduplicated
\* endpoints, signature) and leaves the cursor at the end of the encoded bytes.
C4_MarshalUnmarshalRoundTrip ==
    (made.marshal = "ok" /\ out.tag /= "None" /\ out.start = 0) =>
        /\ out.tag = "Ok"
        /\ out.loc = made.loc
        /\ IsSortedDedup(Unwrap(out.loc).endpoints)
        /\ out.cursor = Len(wire)

\* a round trip of a Locator with a negative timestamp and several endpoints
C4_Witness ==
    /\ made.marshal = "ok" /\ out.tag = "Ok" /\ out.start = 0
    /\ out.loc = made.loc
    /\ Unwrap(made.loc).timestamp < 0
    /\ Len(Unwrap(made.loc).endpoints) >= 2
    /\ Len(Unwrap(made.loc).signature) > 0

\* C5: on every buffer and starting cursor unmarshal returns a Locator or a
\* data-format error and never panics; it returns the error when the subject or
\* the signer is not a valid address.
C5_UnmarshalNeverPanics ==
    out.tag /= "None" =>
        /\ out.tag \in {"Ok", "Err", "InvalidAddress"}
        /\ out.tag = "Ok" => (wire[out.start + 1] \in Address /\ wire[out.start + 2] \in Address)

\* C7: every Locator create or unmarshal returns has endpoints sorted ascending
\* without duplicates.
C7_EndpointsSortedDedup ==
    /\ IsSome(made.loc) => IsSortedDedup(Unwrap(made.loc).endpoints)
    /\ IsSome(out.loc) => IsSortedDedup(Unwrap(out.loc).endpoints)

(***************************************************************************)
(* Properties of the ordering                                              *)
(***************************************************************************)
\* C6: cmp is a strict total order consistent with equality: it is transitive,
\* reversing the operands reverses the result, and it is Equal only for
\* Locators that are == field by field, the signature included.
C6_CmpTotalOrderConsistentWithEq ==
    ores.called =>
        /\ (ores.ab = "Less" /\ ores.bc = "Less") => ores.ac = "Less"
        /\ (ores.ab = "Equal" /\ ores.bc = "Equal") => ores.ac = "Equal"
        /\ ores.ab = "Less" <=> ores.ba = "Greater"
        /\ ores.ab = "Equal" => ores.eq_ab

(***************************************************************************)
(* Properties of the reassembly table                                      *)
(***************************************************************************)
TableSize == Cardinality(DOMAIN fragmented_packets)

\* the fragment numbers already held for packet_id
Held(fp, packet_id) == IF packet_id \in DOMAIN fp THEN fp[packet_id].frags ELSE {}

\* the assembly of packet_id, if any, holds only fragments 0..N-1 that expect N
OnlyFragmentsOf(fp, packet_id, N) ==
    packet_id \in DOMAIN fp =>
        /\ fp[packet_id].frags \subseteq 0..(N - 1)
        /\ fp[packet_id].frags /= {}
        /\ fp[packet_id].have = Cardinality(fp[packet_id].frags)
        /\ fp[packet_id].expecting = N

\* C8: with the table at or below the sanity bound, a new fragment no of the N
\* fragments 0..N-1 of a packet returns None while fewer than N distinct fragments
\* have arrived; the call that brings the last one returns the assembled packet
\* and the identifier is absent from the table after that call.
C8_LastFragmentCompletesOnce ==
    [][(/\ call'.op = "receive_fragment"
        /\ TableSize <= FRAGMENT_MAX_INBOUND_PACKETS_PER_PATH
        /\ call'.fragment_no < call'.fragment_expecting_count
        /\ OnlyFragmentsOf(fragmented_packets, call'.packet_id, call'.fragment_expecting_count)
        /\ call'.fragment_no \notin Held(fragmented_packets, call'.packet_id))
       =>
       LET id == call'.packet_id
           N == call'.fragment_expecting_count
           now == Held(fragmented_packets, id) \cup {call'.fragment_no}
       IN IF now = 0..(N - 1)
          THEN /\ IsSome(ret'.packet)
               /\ Unwrap(ret'.packet).frags = 0..(N - 1)
               /\ id \notin DOMAIN fragmented_packets'
          ELSE /\ ret'.packet = NoneV
               /\ id \in DOMAIN fragmented_packets'
               /\ fragmented_packets'[id].frags = now
               /\ OnlyFragmentsOf(fragmented_packets', id, N)]_vars

\* the last of three fragments arrived: the packet is returned, its identifier gone
C8_Witness ==
    /\ call.op = "receive_fragment"
    /\ call.fragment_expecting_count = FRAGMENT_COUNT_MAX
    /\ IsSome(ret.packet)
    /\ Unwrap(ret.packet).frags = 0..(FRAGMENT_COUNT_MAX - 1)
    /\ call.packet_id \notin DOMAIN fragmented_packets

\* C9: whatever fragments arrive, none completing, the table never holds more
\* than FRAGMENT_MAX_INBOUND_PACKETS_PER_PATH + 1 assemblies.
C9_TableSizeBounded == TableSize <= FRAGMENT_MAX_INBOUND_PACKETS_PER_PATH + 1

\* a fragment of one more packet identifier left the table one entry above the bound
C9_Witness ==
    /\ call.op = "receive_fragment"
    /\ ret.packet = NoneV
    /\ TableSize = FRAGMENT_MAX_INBOUND_PACKETS_PER_PATH + 1

\* C10: a receive_fragment entered with len > the sanity bound removes exactly
\* len / 3 assemblies, each created no later than every assembly it keeps; one
\* entered with len at or below the bound removes none.
C10_EvictsOldestThird ==
    [][call'.op = "receive_fragment" =>
       LET fp == fragmented_packets
           ev == ret'.evicted
           others == (DOMAIN fp) \ {call'.packet_id}
       IN /\ ev \subseteq DOMAIN fp
          /\ IF Cardinality(DOMAIN fp) > FRAGMENT_MAX_INBOUND_PACKETS_PER_PATH
             THEN /\ Cardinality(ev) = Cardinality(DOMAIN fp) \div 3
                  /\ \A e \in ev : \A k \in (DOMAIN fp) \ ev : fp[e].ts_ticks <= fp[k].ts_ticks
             ELSE ev = {}
          /\ \A k \in others \cap ev : k \notin DOMAIN fragmented_packets'
          /\ \A k \in others \ ev :
                 k \in DOMAIN fragmented_packets' /\ fragmented_packets'[k] = fp[k]]_vars

\* a call entered with six assemblies, some older than others, evicted two
C10_Witness ==
    /\ call.op = "receive_fragment"
    /\ Cardinality(ret.evicted) = (FRAGMENT_MAX_INBOUND_PACKETS_PER_PATH + 1) \div 3
    /\ Cardinality(ret.evicted) > 1
    /\ \E k \in DOMAIN fragmented_packets : k /= call.packet_id
                                            /\ fragmented_packets[k].ts_ticks > 0

C11_FreshPathAliveThenDead ==
    [][(/\ call'.op = "service"
        /\ last_receive_time_ticks = NEVER_HAPPENED_TICKS
        /\ last_send_time_ticks = NEVER_HAPPENED_TICKS) =>
            ret'.service = IF (call'.time_ticks - create_time_ticks) < PATH_EXPIRATION_TIME
                           THEN "Ok" ELSE "Dead"]_vars

\* the first tick at which a fresh Path is dead
C11_Witness ==
    /\ call.op = "service"
    /\ last_receive_time_ticks = NEVER_HAPPENED_TICKS
    /\ last_send_time_ticks = NEVER_HAPPENED_TICKS
    /\ call.time_ticks - create_time_ticks = PATH_EXPIRATION_TIME
    /\ ret.service = "Dead"

\* C12: while the last receive is within the expiration window, a service call
\* whose tick is at least PATH_KEEPALIVE_INTERVAL after the last send reports
\* NeedsKeepalive and stores its tick as the last send, and every service call
\* that follows it less than PATH_KEEPALIVE_INTERVAL later, with no
\* log_send_anything in between, reports Ok and leaves the last send alone.
C12_KeepaliveOncePerInterval ==
    [][(/\ call'.op = "service"
        /\ (call'.time_ticks - last_receive_time_ticks) < PATH_EXPIRATION_TIME) =>
            /\ (call'.time_ticks - last_send_time_ticks) >= PATH_KEEPALIVE_INTERVAL =>
                    /\ ret'.service = "NeedsKeepalive"
                    /\ last_send_time_ticks' = call'.time_ticks
            /\ (/\ IsSome(hist.nk_at)
                /\ call'.time_ticks >= Unwrap(hist.nk_at)
                /\ (call'.time_ticks - Unwrap(hist.nk_at)) < PATH_KEEPALIVE_INTERVAL) =>
                    /\ ret'.service = "Ok"
                    /\ last_send_time_ticks' = last_send_time_ticks]_vars

\* a service call one tick after the one that reported NeedsKeepalive reports Ok
C12_Witness ==
    /\ call.op = "service"
    /\ ret.service = "Ok"
    /\ hist.nk_at = Some(call.time_ticks - 1)
    /\ last_send_time_ticks = call.time_ticks - 1
    /\ (call.time_ticks - last_receive_time_ticks) < PATH_EXPIRATION_TIME

\* C13: once service has reported Dead at tick t, every later service call with
\* a tick >= t reports Dead, whatever calls came in between.
C13_DeadIsPermanent ==
    [][(/\ IsSome(hist.dead_at)
        /\ call'.op = "service"
        /\ call'.time_ticks >= Unwrap(hist.dead_at)) => ret'.service = "Dead"]_vars

\* C16: after service(t) the table holds no assembly with t - ts_ticks >=
\* FRAGMENT_EXPIRATION and still holds, unchanged, every assembly with
\* t - ts_ticks < FRAGMENT_EXPIRATION it held before, whatever the
\* classification returned.
C16_ServicePrunesExpired ==
    [][call'.op = "service" =>
        /\ \A k \in DOMAIN fragmented_packets' :
              (call'.time_ticks - fragmented_packets'[k].ts_ticks) < FRAGMENT_EXPIRATION
        /\ \A k \in DOMAIN fragmented_packets :
              (call'.time_ticks - fragmented_packets[k].ts_ticks) < FRAGMENT_EXPIRATION =>
                  (k \in DOMAIN fragmented_packets' /\ fragmented_packets'[k] = fragmented_packets[k])
        /\ ret'.service \in {"Ok", "NeedsKeepalive", "Dead"}]_vars

\* a service call that reported Dead and left exactly the assembly of its own tick
C16_Witness ==
    /\ call.op = "service"
    /\ ret.service = "Dead"
    /\ TableSize = 1
    /\ \A k \in DOMAIN fragmented_packets : fragmented_packets[k].ts_ticks = call.time_ticks

(***************************************************************************)
(* Properties of the PacketIdHasher                                        *)
(***************************************************************************)
\* C14: two Paths constructed with different seeds do not compute the same
\* hash for every packet identifier: the hash of an identifier depends on the
\* seed chosen at construction.
C14_HashDependsOnSeed ==
    (seeds[1] /= seeds[2] /\ DOMAIN hashes = HashPacketIds) =>
        \E packet_id \in HashPacketIds : hashes[packet_id][1] /= hashes[packet_id][2]

(***************************************************************************)
(* Properties of the instance id counter                                   *)
(***************************************************************************)
\* the Paths constructed: <<thread, index among the Paths of that thread>>
Constructed == {p \in NewThreads \X (1..MaxNewCalls) : p[2] <= Len(constructing[p[1]].made)}

InstanceId(p) == constructing[p[1]].made[p[2]]

\* C15: whatever the interleaving of the Path::new calls of the threads, no two
\* Paths constructed have the same internal_instance_id, and the k-th execution
\* of the increment hands out the value the counter had after k - 1 increments.
C15_InstanceIdsUnique ==
    /\ \A p, q \in Constructed : p /= q => InstanceId(p) /= InstanceId(q)
    /\ \A k \in 1..Len(issued) : issued[k] = k - 1
    /\ INSTANCE_ID_COUNTER = Len(issued)
    /\ \A p \in Constructed : InstanceId(p) < INSTANCE_ID_COUNTER

\* all the calls have returned, and the thread that returned first took its
\* value after the other thread
C15_Witness ==
    /\ Cardinality(Constructed) = MaxNewCalls
    /\ Len(constructing[1].made) >= 1 /\ Len(constructing[2].made) >= 1
    /\ constructing[1].made[1] > constructing[2].made[1]
    /\ \A th \in NewThreads : constructing[th].pc = "idle"

(***************************************************************************)
(* Properties of concurrent calls                                          *)
(***************************************************************************)
\* C17: of the service calls made by several threads on one Path with ticks
\* inside the same keepalive interval, at most one reports NeedsKeepalive.
C17_OneKeepalivePerInterval ==
    \A a, b \in ServiceThreads :
        (/\ a /= b
         /\ servicing[a].pc = "done" /\ servicing[a].ret = "NeedsKeepalive"
         /\ servicing[b].pc = "done" /\ servicing[b].ret = "NeedsKeepalive") =>
            \/ servicing[a].time_ticks - servicing[b].time_ticks >= PATH_KEEPALIVE_INTERVAL
            \/ servicing[b].time_ticks - servicing[a].time_ticks >= PATH_KEEPALIVE_INTERVAL

\* the threads that deliver a fragment, and those whose call returned the packet
Delivering == {th \in ReceiveThreads : receiving[th].pc /= "unused"}
ReturnedPacket == {th \in Delivering : receiving[th].pc = "done" /\ IsSome(receiving[th].ret)}

\* C18: when the N distinct fragments of one packet are delivered by concurrent
\* threads, never more than one call returns the packet, and once all N calls
\* have returned exactly one of them has returned it, with all N fragments, and
\* the identifier is no longer in the table.
C18_ExactlyOneCallCompletes ==
    /\ Cardinality(ReturnedPacket) <= 1
    /\ (\A th \in Delivering : receiving[th].pc = "done") =>
          /\ Cardinality(ReturnedPacket) = 1
          /\ \A th \in ReturnedPacket :
                Unwrap(receiving[th].ret).frags = {receiving[d].fragment_no : d \in Delivering}
          /\ RacePacketId \notin DOMAIN fragmented_packets

\* three threads were inside receive_fragment together and the call holding
\* the first fragment returned the packet
C18_Witness ==
    /\ Cardinality(Delivering) = FRAGMENT_COUNT_MAX
    /\ \A th \in Delivering : receiving[th].pc = "done"
    /\ ReturnedPacket = {1}

(***************************************************************************)
(* Properties of a registry using should_replace                           *)
(***************************************************************************)
\* the Locators seen for a subject: the one kept, the one it replaced, and the
\* one arriving next
SeenFor(s) ==
    {Unwrap(o) : o \in {x \in {registry[s], superseded[s], arrived'} :
                            IsSome(x) /\ Unwrap(x).subject = s}}

\* C20: across every arrival, a kept self-signed Locator is never replaced by a
\* proxy-signed one, a replacement between Locators of equal proxy status never
\* lowers the kept timestamp, and should_replace is irreflexive, asymmetric
\* and transitive on the Locators seen for a subject.
C20_RegistryKeepsBest ==
    [][\A s \in Address :
        /\ (IsSome(registry[s]) /\ ~is_proxy_signed(Unwrap(registry[s]))) =>
              ~is_proxy_signed(Unwrap(registry'[s]))
        /\ (/\ IsSome(registry[s])
            /\ registry'[s] /= registry[s]
            /\ is_proxy_signed(Unwrap(registry'[s])) = is_proxy_signed(Unwrap(registry[s]))) =>
              Unwrap(registry'[s]).timestamp >= Unwrap(registry[s]).timestamp
        /\ \A a \in SeenFor(s) : ~should_replace(a, a)
        /\ \A a, b \in SeenFor(s) : should_replace(a, b) => ~should_replace(b, a)
        /\ \A a, b, c \in SeenFor(s) :
              (should_replace(a, b) /\ should_replace(b, c)) => should_replace(a, c)]_vars

\* a newer proxy-signed Locator arrived for a subject whose kept Locator is
\* self-signed and had itself replaced a proxy-signed one: it was not kept
C20_Witness ==
    /\ IsSome(arrived)
    /\ is_proxy_signed(Unwrap(arrived))
    /\ Unwrap(arrived).timestamp = I64_MAX
    /\ IsSome(registry[Unwrap(arrived).subject])
    /\ ~is_proxy_signed(Unwrap(registry[Unwrap(arrived).subject]))
    /\ Unwrap(registry[Unwrap(arrived).subject]).timestamp = I64_MIN
    /\ IsSome(superseded[Unwrap(arrived).subject])
    /\ is_proxy_signed(Unwrap(superseded[Unwrap(arrived).subject]))

====
